---- MODULE Spec2Model ----
(***************************************************************************)
(* A model of src/app.py: the token-bucket admission control               *)
(* (TokenBucket, rate_limit_wait), the retrying fetcher (safe_get) and the *)
(* cached route handlers (@cache.cached routes).                            *)
(*                                                                         *)
(* Units.  The program computes with floats; the model computes with       *)
(* integers on a grid that holds every value the code produces from clock  *)
(* readings on whole ticks:                                                *)
(*   time   : ticks of 0.1 s       (TicksPerSec ticks per second)          *)
(*   tokens : units of 0.01 token  (UnitsPerToken units per token)         *)
(* so refill_rate 0.5 tokens/s is 5 units/tick, 0.8 is 8 and 1 is 10.      *)
(***************************************************************************)
EXTENDS Integers, Sequences, FiniteSets, TLC

\* ---------------------------------------------------------------- units
\* 0.1 s, the finest duration the program names (`wait + 0.1`, line 76).
TicksPerSec == 10
\* 0.01 token: 0.8 tokens/s (line 67) over one tick is 8 units.
UnitsPerToken == 100

\* ---------------------------------------------------------------- bounds
\* Number of request-handling threads (app.run(threaded=True)).
NumThreads == 2
\* Last clock reading, in ticks, of the concurrent specification.
MaxTime == 30
\* Last clock reading, in ticks, of the one-caller specification.
MaxSeqTime == 120
\* Largest `tokens` argument a caller passes to consume().
MaxCost == 2

\* Largest `retries` argument a caller passes to safe_get().
MaxRetries == 7

\* Requests the cache specification receives.
MaxArrivals == 3
\* Last clock reading, in ticks, up to which its clock runs freely.
MaxCacheTime == 6100

\* Longest pattern of prices the upstream's series repeats.
MaxPattern == 2

\* Largest magnitude of the `days` query value a caller sends.
MaxDaysAsked == 400

Threads == 1..NumThreads
NoThread == 0

Min(a, b) == IF a <= b THEN a ELSE b
Max(a, b) == IF a >= b THEN a ELSE b

\* ------------------------------------------------------- rate_limiters
Buckets == {"markets", "coin_detail", "chart", "global"}

\* TokenBucket(capacity=...), in token units.
BucketCapacity(b) ==
    CASE b = "markets"     -> 5 * UnitsPerToken
      [] b = "coin_detail" -> 10 * UnitsPerToken
      [] b = "chart"       -> 8 * UnitsPerToken
      [] b = "global"      -> 5 * UnitsPerToken

\* TokenBucket(refill_rate=...), in token units per tick:
\* 0.5/s -> 5, 1/s -> 10, 0.8/s -> 8.
BucketRefillRate(b) ==
    CASE b = "markets"     -> 5
      [] b = "coin_detail" -> 10
      [] b = "chart"       -> 8
      [] b = "global"      -> 5

\* consume(self, tokens=1): the cost rate_limit_wait's bare consume() pays.
DefaultCost == 1

\* safe_get(..., retries=5, ...).
DefaultRetries == 5
\* Line 87: min(2 ** attempt * 5, 60).
Backoff429Base == 5
Backoff429Cap == 60
\* Line 76: time.sleep(min(wait + 0.1, 2)): 0.1 s and 2 s, in ticks.
WaitSlack == 1
WaitCap == 20

\* Clock advances, in ticks, between two steps of the concurrent
\* specification: one and two seconds.
BucketDeltas == {10, 20}
\* ... and of the one-caller specification: one second, and the ten seconds
\* that fill any bucket (capacity / refill_rate is 10 s for all four).
SeqDeltas == {10, 100}

VARIABLES
    now,          \* time.time(), in ticks
    capacity,     \* TokenBucket.capacity, per bucket
    refill_rate,  \* TokenBucket.refill_rate, per bucket
    tokens,       \* TokenBucket.tokens, per bucket
    last_refill,  \* TokenBucket.last_refill, per bucket
    lock,         \* TokenBucket.lock: the thread holding it, or NoThread
    pc,           \* per thread: the line it is about to execute
    bucketOf,     \* per thread: the bucket its call is on
    cost,         \* per thread: consume()'s `tokens` argument
    tnow,         \* per thread: consume()'s local `now`
    via,          \* per thread: who called consume(): "direct" or "rlw"
    pre,          \* history: the bucket's fields when the thread took the lock
    raced,        \* history: the call began while another thread held the lock
    atNow,        \* history: the thread's last finished call, while the clock
                  \* still shows the value that call read
    allowance,    \* history: per bucket, what the observed interval may still
                  \* grant: the tokens present at its start, plus
                  \* refill_rate * time since, minus one token per grant since
    wait,         \* per thread: rate_limit_wait()'s `wait`, in ticks, rounded up
    wake,         \* per thread: the clock value at which its time.sleep() ends
    retries,      \* per thread: safe_get()'s `retries` argument
    attempt,      \* per thread: safe_get()'s loop variable
    result,       \* per thread: what safe_get() returned: "r200" (the response)
                  \* or "None"; "pending" until it returns
    caller,       \* per thread: who called safe_get(): "direct" or "route"
    requests,     \* history: requests.get() calls of the current safe_get()
    sleeps,       \* history: its backoff sleeps, in seconds, in order
    n429,         \* history: 429 answers it received
    nfail,        \* history: answers it received that were neither 200 nor 429
    last,         \* history: the last answer it received
    route,        \* the cached route the requests are for
    store,        \* the cache: per key, the stored response and its expiry
    cur,          \* per thread: the key of the request it is handling
    arrivals,     \* history: requests received so far
    asked,        \* history: the key of the latest request
    bodyRuns,     \* history: per key, runs of the handler body
    hits,         \* history: per key, requests answered from the cache
    storedAt,     \* history: per key, the clock value at which the handler's
                  \* latest response was stored, -1 if none was
    moved,        \* history: the clock has advanced since the latest request
                  \* arrived or was answered
    granted,      \* history: per thread, tokens its current safe_get() took
    prices,       \* predict_price: the upstream's price series
    volumes,      \* predict_price: the upstream's volume series
    forecast,     \* what AdvancedPredictor.predict_price() returned last
    response,     \* what the /api/predict handler's body produced last
    days,         \* chart: the caller's `days` query value
    forwarded     \* chart: the `days` parameter sent upstream

bucketVars == <<capacity, refill_rate, tokens, last_refill, lock>>
threadVars == <<pc, bucketOf, cost, tnow, via, pre, raced>>
fetchVars == <<wait, wake, retries, attempt, result, caller, requests, sleeps,
               n429, nfail, last>>
cacheVars == <<route, store, cur, arrivals, asked, bodyRuns, hits, storedAt, moved>>
handlerVars == <<prices, volumes, forecast, response, days, forwarded>>
vars == <<now, bucketVars, threadVars, atNow, allowance, fetchVars, cacheVars,
          granted, handlerVars>>

NoPre == [tokens |-> 0, last_refill |-> 0]
NoCall == [done |-> FALSE, seen |-> 0, cost |-> 0, ret |-> FALSE, raced |-> FALSE]

\* ------------------------------------------------------------ TokenBucket

\* Line 49 without its min(): the refill accumulates without a cap.
RefilledNoCap(cap, tok, elapsed, rate) == tok + elapsed * rate

\* Line 49: min(self.capacity, self.tokens + elapsed * self.refill_rate).
Refilled(cap, tok, elapsed, rate) == Min(cap, tok + elapsed * rate)

\* The tokens bucket b holds at this instant: what a consume() reading the
\* clock now would compute before deciding.
Present(b) == Refilled(capacity[b], tokens[b], now - last_refill[b], refill_rate[b])

\* consume() without `with self.lock:`: nothing keeps a second thread out.
LockIgnored(b) == TRUE

\* `with self.lock:` can be entered.
LockFree(b) == lock[b] = NoThread

\* Line 52 with `>` for `>=`.
EnoughStrict(tok, c) == tok > c * UnitsPerToken

\* Line 52: `if self.tokens >= tokens:`.
Enough(tok, c) == tok >= c * UnitsPerToken

\* TokenBucket.__init__ for every entry of rate_limiters, at clock reading 0.
InitBuckets ==
    /\ now = 0
    /\ capacity = [b \in Buckets |-> BucketCapacity(b)]
    /\ refill_rate = [b \in Buckets |-> BucketRefillRate(b)]
    /\ last_refill = [b \in Buckets |-> 0]
    /\ lock = [b \in Buckets |-> NoThread]

\* self.tokens = capacity: a new bucket is full.
InitFull ==
    /\ tokens = [b \in Buckets |-> BucketCapacity(b)]
    /\ allowance = [b \in Buckets |-> BucketCapacity(b)]

InitThreads ==
    /\ pc = [t \in Threads |-> "idle"]
    /\ cost = [t \in Threads |-> 0]
    /\ tnow = [t \in Threads |-> 0]
    /\ via = [t \in Threads |-> "direct"]
    /\ pre = [t \in Threads |-> NoPre]
    /\ raced = [t \in Threads |-> FALSE]
    /\ atNow = [t \in Threads |-> NoCall]

InitFetch ==
    /\ wait = [t \in Threads |-> 0]
    /\ wake = [t \in Threads |-> 0]
    /\ retries = [t \in Threads |-> 0]
    /\ attempt = [t \in Threads |-> 0]
    /\ result = [t \in Threads |-> "pending"]
    /\ caller = [t \in Threads |-> "direct"]
    /\ requests = [t \in Threads |-> 0]
    /\ sleeps = [t \in Threads |-> <<>>]
    /\ n429 = [t \in Threads |-> 0]
    /\ nfail = [t \in Threads |-> 0]
    /\ last = [t \in Threads |-> "none"]
    /\ granted = [t \in Threads |-> 0]

NoForecast == [kind |-> "none"]
NoResponse == [kind |-> "none"]
NoDays == [kind |-> "none"]

\* No handler body has run yet.
InitHandlers ==
    /\ prices = <<>>
    /\ volumes = <<>>
    /\ forecast = NoForecast
    /\ response = NoResponse
    /\ days = NoDays
    /\ forwarded = NoDays

Queries == {"q1", "q2"}
NoEntry == [value |-> "none", expires |-> 0]

\* Cache(app, ...): an empty cache; no request yet.
InitCache ==
    /\ route = "none"
    /\ store = [q \in Queries |-> NoEntry]
    /\ cur = [t \in Threads |-> "none"]
    /\ arrivals = 0
    /\ asked = "none"
    /\ bodyRuns = [q \in Queries |-> 0]
    /\ hits = [q \in Queries |-> 0]
    /\ storedAt = [q \in Queries |-> -1]
    /\ moved = FALSE

\* The bucket specification: every thread works on the same bucket, any of
\* the four.
Init ==
    /\ InitBuckets
    /\ InitFull
    /\ InitThreads
    /\ InitFetch
    /\ InitCache
    /\ InitHandlers
    /\ \E b \in Buckets : bucketOf = [t \in Threads |-> b]

\* time.time() moves on by d ticks.
Tick(d, limit) ==
    /\ now + d <= limit
    /\ now' = now + d
    /\ atNow' = [t \in Threads |-> NoCall]
    /\ allowance' = [b \in Buckets |-> allowance[b] + d * refill_rate[b]]
    /\ moved' = TRUE
    /\ UNCHANGED <<bucketVars, threadVars, fetchVars,
                   route, store, cur, arrivals, asked, bodyRuns, hits, storedAt,
                   granted, handlerVars>>

\* Entering consume(c): the thread reaches `with self.lock:` (line 46).
EnterConsume(t, c, from) ==
    /\ pc' = [pc EXCEPT ![t] = "l46"]
    /\ cost' = [cost EXCEPT ![t] = c]
    /\ via' = [via EXCEPT ![t] = from]
    /\ raced' = [raced EXCEPT ![t] = lock[bucketOf[t]] \in Threads \ {t}]
    /\ atNow' = [atNow EXCEPT ![t] = NoCall]
    /\ UNCHANGED <<now, bucketVars, bucketOf, tnow, pre, allowance>>

\* A thread calls bucket.consume(c) itself.
ConsumeCall(t, c) ==
    /\ pc[t] = "idle"
    /\ EnterConsume(t, c, "direct")
    /\ UNCHANGED <<fetchVars, cacheVars, granted, handlerVars>>

\* Line 46: `with self.lock:` acquires the bucket's lock.
Acquire(t) ==
    /\ pc[t] = "l46"
    /\ LockFree(bucketOf[t])
    /\ lock' = [lock EXCEPT ![bucketOf[t]] = t]
    /\ pre' = [pre EXCEPT ![t] = [tokens |-> tokens[bucketOf[t]],
                                  last_refill |-> last_refill[bucketOf[t]]]]
    /\ pc' = [pc EXCEPT ![t] = "l47"]
    /\ UNCHANGED <<now, capacity, refill_rate, tokens, last_refill,
                   bucketOf, cost, tnow, via, raced, atNow, allowance, fetchVars, cacheVars, granted, handlerVars>>

\* Lines 47-50: read the clock, refill, stamp last_refill.
Refill(t) ==
    /\ pc[t] = "l47"
    /\ LET b == bucketOf[t] IN
        /\ tnow' = [tnow EXCEPT ![t] = now]
        /\ tokens' = [tokens EXCEPT ![b] =
                        Refilled(capacity[b], tokens[b], now - last_refill[b],
                                 refill_rate[b])]
        /\ last_refill' = [last_refill EXCEPT ![b] = now]
    /\ pc' = [pc EXCEPT ![t] = "l52"]
    /\ UNCHANGED <<now, capacity, refill_rate, lock, bucketOf, cost, via, pre,
                   raced, atNow, allowance, fetchVars, cacheVars, granted, handlerVars>>

\* Line 52: the admission check.
Check(t) ==
    /\ pc[t] = "l52"
    /\ pc' = [pc EXCEPT ![t] =
                IF Enough(tokens[bucketOf[t]], cost[t]) THEN "l53" ELSE "l55"]
    /\ UNCHANGED <<now, bucketVars, bucketOf, cost, tnow, via, pre, raced, atNow,
                   allowance, fetchVars, cacheVars, granted, handlerVars>>

\* Where consume() returns r to: a direct caller is done; in rate_limit_wait
\* `while not bucket.consume():` (line 73) leaves the loop on True and enters
\* its body (line 74) on False.
AfterConsume(t, r) ==
    IF via[t] = "rlw" THEN (IF r THEN "l82" ELSE "l74") ELSE "idle"

\* The positions inside consume()'s `with self.lock:` block.
InsideLock == {"l47", "l52", "l53", "l55"}

\* The `with` block left without releasing the lock.
KeptLock(holder, t) == holder

\* Line 46, leaving `with self.lock:`: the holder releases the lock.
Released(holder, t) == IF holder = t THEN NoThread ELSE holder

\* Leaving the `with` block and returning r: the lock is released and the
\* frame's locals go.
LeaveConsume(t, r) ==
    /\ lock' = [lock EXCEPT ![bucketOf[t]] = Released(lock[bucketOf[t]], t)]
    /\ pc' = [pc EXCEPT ![t] = AfterConsume(t, r)]
    /\ cost' = [cost EXCEPT ![t] = 0]
    /\ tnow' = [tnow EXCEPT ![t] = 0]
    /\ pre' = [pre EXCEPT ![t] = NoPre]
    /\ raced' = [raced EXCEPT ![t] = FALSE]
    /\ atNow' = [atNow EXCEPT ![t] =
                   IF tnow[t] = now
                   THEN [done |-> TRUE, seen |-> tokens[bucketOf[t]], cost |-> cost[t],
                         ret |-> r, raced |-> raced[t]]
                   ELSE NoCall]

\* Lines 53-54: deduct and return True.
Deduct(t) ==
    /\ pc[t] = "l53"
    /\ tokens' = [tokens EXCEPT ![bucketOf[t]] = @ - cost[t] * UnitsPerToken]
    /\ allowance' = [allowance EXCEPT ![bucketOf[t]] = @ - UnitsPerToken]
    /\ granted' = [granted EXCEPT ![t] = IF via[t] = "rlw" THEN @ + cost[t] ELSE @]
    /\ LeaveConsume(t, TRUE)
    /\ UNCHANGED <<now, capacity, refill_rate, last_refill, bucketOf, via,
                   fetchVars, cacheVars, handlerVars>>

\* Line 55: return False.
Reject(t) ==
    /\ pc[t] = "l55"
    /\ LeaveConsume(t, FALSE)
    /\ UNCHANGED <<now, capacity, refill_rate, tokens, last_refill, bucketOf, via,
                   allowance, fetchVars, cacheVars, granted, handlerVars>>

\* An observer starts a new interval on bucket b, at any moment between two
\* critical sections: from here on it allows the tokens the bucket holds now.
Mark(b) ==
    /\ LockFree(b)
    /\ allowance[b] # Present(b)
    /\ allowance' = [allowance EXCEPT ![b] = Present(b)]
    /\ UNCHANGED <<now, bucketVars, threadVars, atNow, fetchVars, cacheVars, granted, handlerVars>>

\* Concurrent callers of consume() on one bucket.
Next ==
    \/ \E d \in BucketDeltas : Tick(d, MaxTime)
    \/ \E t \in Threads : ConsumeCall(t, DefaultCost)
    \/ \E t \in Threads : Acquire(t)
    \/ \E t \in Threads : Refill(t)
    \/ \E t \in Threads : Check(t)
    \/ \E t \in Threads : Deduct(t)
    \/ \E t \in Threads : Reject(t)
    \/ \E t \in Threads : Mark(bucketOf[t])

Spec == Init /\ [][Next]_vars

\* One caller of consume(cost), any cost, with long idle periods.
SeqNext ==
    \/ \E d \in SeqDeltas : Tick(d, MaxSeqTime)
    \/ \E c \in 1..MaxCost : ConsumeCall(1, c)
    \/ Acquire(1)
    \/ Refill(1)
    \/ Check(1)
    \/ Deduct(1)
    \/ Reject(1)

SeqSpec == Init /\ [][SeqNext]_vars

\* -------------------------------------------------------- rate_limit_wait

\* The smallest whole number of ticks that is at least a / b.
CeilDiv(a, b) == (a + b - 1) \div b

\* Line 61 multiplying by refill_rate instead of dividing.
WaitTimeTimesRate(tok, rate) ==
    IF tok >= UnitsPerToken THEN 0 ELSE (UnitsPerToken - tok) * rate

\* Lines 59-61, TokenBucket.wait_time(): 0 if tokens >= 1, else
\* (1 - tokens) / refill_rate; in ticks, rounded up to the tick at which a
\* sleep of that length is over.
WaitTime(tok, rate) ==
    IF tok >= UnitsPerToken THEN 0 ELSE CeilDiv(UnitsPerToken - tok, rate)

\* Line 74: wait = bucket.wait_time(), under the bucket's lock.
CallWaitTime(t) ==
    /\ pc[t] = "l74"
    /\ LockFree(bucketOf[t])
    /\ wait' = [wait EXCEPT ![t] =
                  WaitTime(tokens[bucketOf[t]], refill_rate[bucketOf[t]])]
    /\ pc' = [pc EXCEPT ![t] = "l76"]
    /\ UNCHANGED <<now, bucketVars, bucketOf, cost, tnow, via, pre, raced, atNow,
                   allowance, wake, retries, attempt, result, caller, requests,
                   sleeps, n429, nfail, last, cacheVars, granted, handlerVars>>

\* Line 76: time.sleep(min(wait + 0.1, 2)) begins.
RateLimitSleep(t) ==
    /\ pc[t] = "l76"
    /\ wake' = [wake EXCEPT ![t] = now + Min(wait[t] + WaitSlack, WaitCap)]
    /\ pc' = [pc EXCEPT ![t] = "z76"]
    /\ UNCHANGED <<now, bucketVars, bucketOf, cost, tnow, via, pre, raced, atNow,
                   allowance, wait, retries, attempt, result, caller, requests,
                   sleeps, n429, nfail, last, cacheVars, granted, handlerVars>>

\* The sleep of line 76 is over: back to `while not bucket.consume():`.
RateLimitWake(t) ==
    /\ pc[t] = "z76"
    /\ now >= wake[t]
    /\ EnterConsume(t, DefaultCost, "rlw")
    /\ UNCHANGED <<fetchVars, cacheVars, granted, handlerVars>>

Asleep == {"z76", "z89", "z98", "z103", "z106"}

\* Time passes until the next sleeping thread is due.
Elapse ==
    \E t \in Threads :
        /\ pc[t] \in Asleep
        /\ wake[t] > now
        /\ \A u \in Threads : (pc[u] \in Asleep /\ wake[u] > now) => wake[t] <= wake[u]
        /\ Tick(wake[t] - now, wake[t])

\* --------------------------------------------------------------- safe_get

RECURSIVE Pow2(_)
Pow2(n) == IF n = 0 THEN 1 ELSE 2 * Pow2(n - 1)

\* Line 87 with the cap applied by wrapping instead of min().
Backoff429Wrapped(a) == (Pow2(a) * Backoff429Base) % Backoff429Cap

\* Line 87: wait_time = min(2 ** attempt * 5, 60), in seconds.
Backoff429(a) == Min(Pow2(a) * Backoff429Base, Backoff429Cap)

\* Lines 96, 103, 106: 2 ** attempt, in seconds.
BackoffError(a) == Pow2(a)

\* `for attempt in range(retries)` with one iteration too many.
InRangeOffByOne(a, r) == a <= r

\* Line 82: `for attempt in range(retries)` has another iteration.
InRange(a, r) == a < r

\* Line 79-80: safe_get(url, params, retries=r, bucket=...) is called and
\* calls rate_limit_wait(bucket), which calls bucket.consume() (line 73).
SafeGetEnter(t, r, who) ==
    /\ retries' = [retries EXCEPT ![t] = r]
    /\ attempt' = [attempt EXCEPT ![t] = 0]
    /\ result' = [result EXCEPT ![t] = "pending"]
    /\ caller' = [caller EXCEPT ![t] = who]
    /\ requests' = [requests EXCEPT ![t] = 0]
    /\ sleeps' = [sleeps EXCEPT ![t] = <<>>]
    /\ n429' = [n429 EXCEPT ![t] = 0]
    /\ nfail' = [nfail EXCEPT ![t] = 0]
    /\ last' = [last EXCEPT ![t] = "none"]
    /\ granted' = [granted EXCEPT ![t] = 0]
    /\ EnterConsume(t, DefaultCost, "rlw")
    /\ UNCHANGED <<wait, wake>>

\* A caller outside the routes calls safe_get(): one call per thread.
SafeGetCall(t, r) ==
    /\ pc[t] = "idle"
    /\ result[t] = "pending"
    /\ SafeGetEnter(t, r, "direct")
    /\ UNCHANGED <<cacheVars, handlerVars>>

\* Line 84 is reached: the loop has another iteration and requests.get() is
\* sent; the upstream's answer is a.
Request(t, a) ==
    /\ pc[t] = "l82"
    /\ InRange(attempt[t], retries[t])
    /\ requests' = [requests EXCEPT ![t] = @ + 1]
    /\ last' = [last EXCEPT ![t] = a]
    /\ n429' = [n429 EXCEPT ![t] = IF a = "429" THEN @ + 1 ELSE @]
    /\ nfail' = [nfail EXCEPT ![t] = IF a \notin {"429", "200"} THEN @ + 1 ELSE @]

\* A backoff sleep of d seconds begins at line ln.
StartBackoff(t, d, ln) ==
    /\ sleeps' = [sleeps EXCEPT ![t] = Append(@, d)]
    /\ wake' = [wake EXCEPT ![t] = now + d * TicksPerSec]
    /\ pc' = [pc EXCEPT ![t] = ln]
    /\ UNCHANGED <<now, bucketVars, bucketOf, cost, tnow, via, pre, raced, atNow,
                   allowance, wait, retries, attempt, result, caller, cacheVars, granted, handlerVars>>

\* Where safe_get() returns to.
AfterSafeGet(t) == IF caller[t] = "route" THEN "l260" ELSE "idle"

\* Lines 86-90: status 429: sleep min(2 ** attempt * 5, 60), continue.
Got429(t) ==
    /\ Request(t, "429")
    /\ StartBackoff(t, Backoff429(attempt[t]), "z89")

\* Lines 92-93: status 200: return r.
Got200(t) ==
    /\ Request(t, "200")
    /\ result' = [result EXCEPT ![t] = "r200"]
    /\ pc' = [pc EXCEPT ![t] = AfterSafeGet(t)]
    /\ UNCHANGED <<now, bucketVars, bucketOf, cost, tnow, via, pre, raced, atNow,
                   allowance, wait, wake, retries, attempt, caller, sleeps, cacheVars, granted, handlerVars>>

\* Lines 95-99: status >= 500: sleep 2 ** attempt, continue.
Got5xx(t) ==
    /\ Request(t, "5xx")
    /\ StartBackoff(t, BackoffError(attempt[t]), "z98")

\* Any other status (400, 404, ...): no branch is taken, the loop body ends
\* and the for loop goes on to the next attempt.
GotOther(t) ==
    /\ Request(t, "other")
    /\ attempt' = [attempt EXCEPT ![t] = @ + 1]
    /\ UNCHANGED <<now, bucketVars, threadVars, atNow, allowance, wait, wake,
                   retries, result, caller, sleeps, cacheVars, granted, handlerVars>>

\* Lines 101-103: requests.exceptions.Timeout: sleep 2 ** attempt.
GotTimeout(t) ==
    /\ Request(t, "timeout")
    /\ StartBackoff(t, BackoffError(attempt[t]), "z103")

\* Lines 104-106: any other RequestException: sleep 2 ** attempt.
GotError(t) ==
    /\ Request(t, "error")
    /\ StartBackoff(t, BackoffError(attempt[t]), "z106")

\* A backoff sleep is over: `continue`, or the end of the except block: the
\* for loop takes its next value.
BackoffWake(t) ==
    /\ pc[t] \in {"z89", "z98", "z103", "z106"}
    /\ now >= wake[t]
    /\ attempt' = [attempt EXCEPT ![t] = @ + 1]
    /\ pc' = [pc EXCEPT ![t] = "l82"]
    /\ UNCHANGED <<now, bucketVars, bucketOf, cost, tnow, via, pre, raced, atNow,
                   allowance, wait, wake, retries, result, caller, requests,
                   sleeps, n429, nfail, last, cacheVars, granted, handlerVars>>

\* Lines 108-109: the loop is exhausted: return None.
GiveUp(t) ==
    /\ pc[t] = "l82"
    /\ ~InRange(attempt[t], retries[t])
    /\ result' = [result EXCEPT ![t] = "None"]
    /\ pc' = [pc EXCEPT ![t] = AfterSafeGet(t)]
    /\ UNCHANGED <<now, bucketVars, bucketOf, cost, tnow, via, pre, raced, atNow,
                   allowance, wait, wake, retries, attempt, caller, requests,
                   sleeps, n429, nfail, last, cacheVars, granted, handlerVars>>

\* Token counts, in units, a bucket may hold when a safe_get() call arrives:
\* drained, half a token, or full.
StartTokens(b) == {0, UnitsPerToken \div 2, BucketCapacity(b)}

\* A safe_get() call is about to arrive on bucket b, which holds k units.
FetchStart(b, k) ==
    /\ InitBuckets
    /\ InitThreads
    /\ InitFetch
    /\ InitCache
    /\ InitHandlers
    /\ bucketOf = [t \in Threads |-> b]
    /\ tokens = [c \in Buckets |-> IF c = b THEN k ELSE BucketCapacity(c)]
    /\ allowance = [c \in Buckets |-> IF c = b THEN k ELSE BucketCapacity(c)]

\* One safe_get() call, on any bucket, found in any of those conditions.
FetchInit == \E b \in Buckets : \E k \in StartTokens(b) : FetchStart(b, k)

\* One safe_get() call on a bucket that earlier calls have drained.
DrainedInit == \E b \in Buckets : FetchStart(b, 0)

FetchStep(t) ==
    \/ \E r \in 0..MaxRetries : SafeGetCall(t, r)
    \/ Acquire(t)
    \/ Refill(t)
    \/ Check(t)
    \/ Deduct(t)
    \/ Reject(t)
    \/ CallWaitTime(t)
    \/ RateLimitSleep(t)
    \/ RateLimitWake(t)
    \/ Got429(t)
    \/ Got200(t)
    \/ Got5xx(t)
    \/ GotOther(t)
    \/ GotTimeout(t)
    \/ GotError(t)
    \/ BackoffWake(t)
    \/ GiveUp(t)

FetchNext == FetchStep(1) \/ Elapse

FetchSpec == FetchInit /\ [][FetchNext]_vars

\* The thread is scheduled and the clock runs: no step that can be taken is
\* put off forever.
FetchFairSpec == DrainedInit /\ [][FetchNext]_vars /\ WF_vars(FetchNext)

\* Two safe_get() calls at once, each on any bucket, the buckets all full or
\* all drained by earlier calls.
MixInit ==
    /\ InitBuckets
    /\ InitThreads
    /\ InitFetch
    /\ InitCache
    /\ InitHandlers
    /\ \E a, b \in Buckets :
          bucketOf = [t \in Threads |-> IF t = 1 THEN a ELSE b]
    /\ \E full \in BOOLEAN :
          /\ tokens = [b \in Buckets |-> IF full THEN BucketCapacity(b) ELSE 0]
          /\ allowance = tokens

\* The `retries` arguments of the two calls.
MixRetries == {1, 2}

\* What a thread inside safe_get() does next; the upstream answers 200 or a
\* server error.
MixStep(t) ==
    \/ \E r \in MixRetries : SafeGetCall(t, r)
    \/ Acquire(t)
    \/ Refill(t)
    \/ Check(t)
    \/ Deduct(t)
    \/ Reject(t)
    \/ CallWaitTime(t)
    \/ RateLimitSleep(t)
    \/ RateLimitWake(t)
    \/ Got200(t)
    \/ Got5xx(t)
    \/ BackoffWake(t)
    \/ GiveUp(t)

\* app.run(threaded=True): two requests served by two threads, scheduled in
\* any order while the clock runs.
MixNext ==
    \/ MixStep(1)
    \/ MixStep(2)
    \/ \E d \in BucketDeltas : Tick(d, MaxTime)

MixSpec == MixInit /\ [][MixNext]_vars

\* ------------------------------------------------- callers that keep coming

\* The time, in ticks, in which an empty bucket b is full again.
FullAge(b) == CeilDiv(BucketCapacity(b), BucketRefillRate(b))

\* time.time() moves on by d ticks, seen from the new instant: the program
\* uses clock values only in differences (lines 48, 76), so the clock is
\* kept at `now` and every stored clock value moves d ticks into the past.
\* A last_refill older than the time that fills the bucket, and a wake time
\* already due, are as good as one that is just that old. The steps of a
\* call take far less than d: the clock moves while every thread sleeps or
\* is between two calls.
Advance(d) ==
    /\ \A t \in Threads : pc[t] \in Asleep \cup {"idle"}
    /\ last_refill' = [b \in Buckets |-> Max(last_refill[b] - d, now - FullAge(b))]
    /\ wake' = [t \in Threads |-> Max(wake[t] - d, now)]
    /\ atNow' = [t \in Threads |-> NoCall]
    /\ allowance' = [b \in Buckets |->
                       Min(capacity[b], allowance[b] + d * refill_rate[b])]
    /\ moved' = TRUE
    /\ UNCHANGED <<now, capacity, refill_rate, tokens, lock, threadVars,
                   wait, retries, attempt, result, caller, requests,
                   sleeps, n429, nfail, last, route, store, cur, arrivals, asked,
                   bodyRuns, hits, storedAt, granted, handlerVars>>

\* app.run(threaded=True): a thread of the server takes a request, its
\* first or a further one, and calls safe_get().
NextSafeGet(t) ==
    /\ pc[t] = "idle"
    /\ SafeGetEnter(t, DefaultRetries, "direct")
    /\ UNCHANGED <<cacheVars, handlerVars>>

\* What a thread inside safe_get() does next; the upstream answers 200.
StarveRun(t) ==
    \/ Acquire(t)
    \/ Refill(t)
    \/ Check(t)
    \/ Deduct(t)
    \/ Reject(t)
    \/ CallWaitTime(t)
    \/ RateLimitSleep(t)
    \/ RateLimitWake(t)
    \/ Got200(t)

\* Thread 1 makes one call; thread 2 makes call after call.
StarveStep(t) ==
    \/ t = 1 /\ SafeGetCall(t, DefaultRetries)
    \/ t # 1 /\ NextSafeGet(t)
    \/ StarveRun(t)

\* One safe_get() call on the drained "markets" bucket.
StarveInit == FetchStart("markets", 0)

\* Two threads calling safe_get() on one bucket, observed once a second.
StarveNext ==
    \/ StarveStep(1)
    \/ StarveStep(2)
    \/ Advance(TicksPerSec)

\* Both threads are scheduled and the clock advances: a thread that can take
\* a step again and again takes one (so none waits for the lock forever),
\* and the clock's step is not put off forever.
StarveSpec ==
    /\ StarveInit
    /\ [][StarveNext]_vars
    /\ SF_vars(StarveStep(1))
    /\ SF_vars(StarveStep(2))
    /\ WF_vars(Advance(TicksPerSec))

\* ---------------------------------------------------------- cached routes

Routes == {"/api/global", "/api/prices", "/api/coin", "/api/predict", "/api/chart"}

\* @cache.cached(timeout=...), in ticks.
RouteTTL(r) ==
    CASE r = "/api/global"  -> 300 * TicksPerSec
      [] r = "/api/prices"  -> 180 * TicksPerSec
      [] r = "/api/coin"    -> 300 * TicksPerSec
      [] r = "/api/predict" -> 180 * TicksPerSec
      [] r = "/api/chart"   -> 180 * TicksPerSec

\* safe_get(..., bucket=...) of the route's handler.
RouteBucket(r) ==
    CASE r = "/api/global"  -> "global"
      [] r = "/api/prices"  -> "markets"
      [] r = "/api/coin"    -> "coin_detail"
      [] r = "/api/predict" -> "chart"
      [] r = "/api/chart"   -> "chart"

\* An entry that is served although its time is up.
FreshLate(e, t) == e # NoEntry /\ e.expires >= t

\* The cache's get(): an entry is served while its expiry lies ahead.
Fresh(e, t) == e # NoEntry /\ e.expires > t

\* @cache.cached(query_string=True), hit: a request for key q arrives and
\* the stored response is returned; the handler is not called.
CacheHit(t, q) ==
    /\ pc[t] = "idle"
    /\ arrivals < MaxArrivals
    /\ Fresh(store[q], now)
    /\ arrivals' = arrivals + 1
    /\ asked' = q
    /\ hits' = [hits EXCEPT ![q] = @ + 1]
    /\ moved' = FALSE
    /\ UNCHANGED <<now, bucketVars, threadVars, atNow, allowance, fetchVars,
                   route, store, cur, bodyRuns, storedAt, granted, handlerVars>>

\* @cache.cached(query_string=True), miss: the handler is called; its first
\* statement is r = safe_get(..., bucket=...).
CacheMiss(t, q) ==
    /\ pc[t] = "idle"
    /\ arrivals < MaxArrivals
    /\ ~Fresh(store[q], now)
    /\ arrivals' = arrivals + 1
    /\ asked' = q
    /\ cur' = [cur EXCEPT ![t] = q]
    /\ bodyRuns' = [bodyRuns EXCEPT ![q] = @ + 1]
    /\ moved' = FALSE
    /\ SafeGetEnter(t, DefaultRetries, "route")
    /\ UNCHANGED <<route, store, hits, storedAt, handlerVars>>

\* `if not r or r.status_code != 200: return jsonify(success=False), 500`,
\* else the success response.
HandlerResponse(res) == IF res = "r200" THEN "ok" ELSE "fail"

\* The handler returns and the decorator stores what it returned: it was
\* given no response_filter, so every return value is stored, for `timeout`.
RouteReturn(t) ==
    /\ pc[t] = "l260"
    /\ store' = [store EXCEPT ![cur[t]] =
                   [value |-> HandlerResponse(result[t]),
                    expires |-> now + RouteTTL(route)]]
    /\ storedAt' = [storedAt EXCEPT ![cur[t]] = now]
    /\ cur' = [cur EXCEPT ![t] = "none"]
    /\ pc' = [pc EXCEPT ![t] = "idle"]
    /\ moved' = FALSE
    /\ UNCHANGED <<now, bucketVars, bucketOf, cost, tnow, via, pre, raced, atNow,
                   allowance, fetchVars, route, arrivals, asked, bodyRuns, hits,
                   granted, handlerVars>>

\* Requests for one route, any of the five, handled one after the other;
\* the cache is empty and the route's bucket is full or has been drained.
CacheInit ==
    /\ InitBuckets
    /\ InitThreads
    /\ InitFetch
    /\ InitHandlers
    /\ store = [q \in Queries |-> NoEntry]
    /\ cur = [t \in Threads |-> "none"]
    /\ arrivals = 0
    /\ asked = "none"
    /\ bodyRuns = [q \in Queries |-> 0]
    /\ hits = [q \in Queries |-> 0]
    /\ storedAt = [q \in Queries |-> -1]
    /\ moved = FALSE
    /\ \E r \in Routes : \E k \in {0, BucketCapacity(RouteBucket(r))} :
        /\ route = r
        /\ bucketOf = [t \in Threads |-> RouteBucket(r)]
        /\ tokens = [c \in Buckets |->
                       IF c = RouteBucket(r) THEN k ELSE BucketCapacity(c)]
        /\ allowance = [c \in Buckets |->
                       IF c = RouteBucket(r) THEN k ELSE BucketCapacity(c)]

\* Clock advances between two requests of the cache specification: a second,
\* a second less than the route's timeout, and the timeout.
CacheDeltas == {TicksPerSec, RouteTTL(route) - TicksPerSec, RouteTTL(route)}

CacheStep(t) ==
    \/ \E q \in Queries : CacheHit(t, q)
    \/ \E q \in Queries : CacheMiss(t, q)
    \/ Acquire(t)
    \/ Refill(t)
    \/ Check(t)
    \/ Deduct(t)
    \/ Reject(t)
    \/ CallWaitTime(t)
    \/ RateLimitSleep(t)
    \/ RateLimitWake(t)
    \/ Got200(t)
    \/ GotOther(t)
    \/ GiveUp(t)
    \/ RouteReturn(t)

\* The clock advances once between two requests.
Pause(d) ==
    /\ \A t \in Threads : pc[t] = "idle"
    /\ ~moved
    /\ Tick(d, MaxCacheTime)

CacheNext ==
    \/ CacheStep(1)
    \/ Elapse
    \/ \E d \in CacheDeltas : Pause(d)

CacheSpec == CacheInit /\ [][CacheNext]_vars

\* ------------------------------------------------------ AdvancedPredictor
\* Prices are whole dollars; every fraction, percentage and derived price is
\* kept in units of 1/Scale, and every division rounds down to that unit.

Scale == 10000
\* Lines 179 and 397: the fewest points a forecast is made from.
MinHistory == 30
\* Lines 194 and 207: the points the momentum factor needs.
LongHistory == 90

RECURSIVE SumRange(_, _, _)
\* np.sum / np.mean's numerator over f[a..b].
SumRange(f, a, b) == IF a > b THEN 0 ELSE f[b] + SumRange(f, a, b - 1)

RECURSIVE MinRange(_, _, _)
MinRange(f, a, b) == IF a = b THEN f[a] ELSE Min(f[b], MinRange(f, a, b - 1))

RECURSIVE MaxRange(_, _, _)
MaxRange(f, a, b) == IF a = b THEN f[a] ELSE Max(f[b], MaxRange(f, a, b - 1))

RECURSIVE SqrtBetween(_, _, _)
SqrtBetween(n, lo, hi) ==
    IF lo = hi THEN lo
    ELSE LET mid == (lo + hi + 1) \div 2
         IN  IF mid * mid <= n THEN SqrtBetween(n, mid, hi)
                               ELSE SqrtBetween(n, lo, mid - 1)

\* The square root inside np.std, rounded down to the unit.
Isqrt(n) == SqrtBetween(n, 0, 46340)

Abs(a) == IF a < 0 THEN -a ELSE a

\* Lines 114-131, calculate_rsi(prices, period=14): 50 below 15 points, 100
\* when the last 14 deltas hold no loss, else 100 - 100 / (1 + rs), which is
\* 100 * gains / (gains + losses).
calculate_rsi(p) ==
    LET n == Len(p)
        loss == [j \in 1..(n - 1) |-> Max(p[j] - p[j + 1], 0)]
        gain == [j \in 1..(n - 1) |-> Max(p[j + 1] - p[j], 0)]
        G == SumRange(gain, n - 14, n - 1)
        L == SumRange(loss, n - 14, n - 1)
    IN  IF n < 15 THEN 50 * Scale
        ELSE IF L = 0 THEN 100 * Scale
        ELSE (100 * Scale * G) \div (G + L)

\* Lines 148-153, ema(data, period)[j - 1]: the mean of the first j values
\* up to j = period, then data * 2/(period+1) + mean(previous period values)
\* * (1 - 2/(period+1)).
EmaAt(f, period, j) ==
    IF j <= period THEN SumRange(f, 1, j) \div j
    ELSE (2 * period * f[j] + (period - 1) * SumRange(f, j - period, j - 1))
            \div (period * (period + 1))

\* Lines 134-145, calculate_macd(prices): <<macd_line[-1], signal_line[-1]>>.
calculate_macd(p) ==
    LET n == Len(p)
        P == [j \in 1..n |-> p[j] * Scale]
        macd_line == [j \in 1..n |-> EmaAt(P, 12, j) - EmaAt(P, 26, j)]
    IN  IF n < 26 THEN <<0, 0>>
        ELSE <<macd_line[n], EmaAt(macd_line, 9, n)>>

\* Lines 156-161, calculate_volatility(prices, window=30): the standard
\* deviation of the last 30 returns, in percent.
calculate_volatility(p) ==
    LET n == Len(p)
        returns == [j \in 1..(n - 1) |-> ((p[j + 1] - p[j]) * Scale) \div p[j]]
        a == Max(1, n - 30)
        k == n - a
        m == SumRange(returns, a, n - 1) \div k
        sq == [j \in 1..(n - 1) |-> (returns[j] - m) * (returns[j] - m)]
    IN  IF n < 2 THEN 0
        ELSE Isqrt(SumRange(sq, a, n - 1) \div k) * 100

\* Lines 164-174, calculate_bollinger_bands(prices, period=20, std_dev=2):
\* <<upper_band, sma, lower_band>>, in cents.
calculate_bollinger_bands(p) ==
    LET n == Len(p)
        sma == (SumRange(p, n - 19, n) * 100) \div 20
        sq == [j \in 1..n |-> (p[j] * 100 - sma) * (p[j] * 100 - sma)]
        std == Isqrt(SumRange(sq, n - 19, n) \div 20)
    IN  IF n < 20 THEN <<p[n] * 100, p[n] * 100, p[n] * 100>>
        ELSE <<sma + 2 * std, sma, sma - 2 * std>>

\* Lines 197-200: the slope of np.polyfit(x, y, 1) over the last 30 prices.
trend_slope(p) ==
    LET n == Len(p)
        y == [x \in 0..29 |-> p[n - 29 + x]]
        xy == [x \in 0..29 |-> x * y[x]]
        xx == [x \in 0..29 |-> x * x]
        sx == [x \in 0..29 |-> x]
        Sx == SumRange(sx, 0, 29)
    IN  ((30 * SumRange(xy, 0, 29) - Sx * SumRange(y, 0, 29)) * Scale)
           \div (30 * SumRange(xx, 0, 29) - Sx * Sx)

\* Line 209: macd_factor = 1 if macd > signal else -1.
macd_factor(macd, signal) == IF macd > signal THEN Scale ELSE -Scale

\* Lines 205-230: prediction_change for days_ahead = d.
prediction_change(p, v, d) ==
    LET n == Len(p)
        current == p[n]
        rsi == calculate_rsi(p)
        macd == calculate_macd(p)
        volatility == calculate_volatility(p)
        bb == calculate_bollinger_bands(p)
        sum_7 == SumRange(p, n - 6, n)
        sum_30 == SumRange(p, n - 29, n)
        sum_90 == SumRange(p, n - 89, n)
        vol_trend == IF Len(v) >= 30
                     THEN (SumRange(v, Len(v) - 6, Len(v)) * 30 * Scale)
                             \div (SumRange(v, Len(v) - 29, Len(v)) * 7)
                     ELSE Scale
        trend_factor == ((sum_7 * 30 - sum_30 * 7) * Scale) \div (sum_30 * 7)
        momentum_factor == IF n >= LongHistory
                           THEN ((current * 90 - sum_90) * Scale) \div sum_90
                           ELSE trend_factor
        rsi_factor == (rsi - 50 * Scale) \div 50
        volatility_factor == Min(volatility \div 10, Scale)
        volume_factor == (vol_trend - Scale) \div 2
        bb_position == IF bb[1] # bb[3]
                       THEN ((current * 100 - bb[3]) * Scale) \div (bb[1] - bb[3])
                       ELSE Scale \div 2
        bb_factor == (bb_position - Scale \div 2) * 2
        weighted == (trend_factor * 30 + momentum_factor * 20 + rsi_factor * 15
                     + macd_factor(macd[1], macd[2]) * 10 + bb_factor * 15
                     + volume_factor * 10) \div 100
        timed == (weighted * d) \div 30
    IN  (timed * (5 * Scale + volatility_factor)) \div (5 * Scale)

\* Lines 235-239: confidence = max(20, min(95, 70 - volatility * 2
\* + abs(trend_slope) * 1000 + (10 if 40 < rsi < 60 else -5))).
confidence(p) ==
    LET rsi == calculate_rsi(p)
        bonus == IF 40 * Scale < rsi /\ rsi < 60 * Scale THEN 10 ELSE -5
    IN  Max(20 * Scale,
            Min(95 * Scale,
                70 * Scale - calculate_volatility(p) * 2
                  + Abs(trend_slope(p)) * 1000 + bonus * Scale))

\* Lines 177-248, AdvancedPredictor.predict_price(prices, volumes,
\* days_ahead): below 30 points it returns prices[-1] and confidence 50
\* (prices[-1] of an empty list raises IndexError); else the forecast.
predict_price(p, v, d) ==
    IF Len(p) < MinHistory
    THEN IF Len(p) = 0 THEN [kind |-> "IndexError"]
         ELSE [kind |-> "value", price |-> p[Len(p)] * Scale,
               confidence |-> 50 * Scale]
    ELSE [kind |-> "value",
          price |-> p[Len(p)] * (Scale + prediction_change(p, v, d)),
          confidence |-> confidence(p)]

\* Lines 412-422: the sentiment of a 7-day change, in percent.
Sentiment(price_change) ==
    IF price_change > 5 * Scale THEN "Strong Bullish"
    ELSE IF price_change > 2 * Scale THEN "Bullish"
    ELSE IF price_change < -5 * Scale THEN "Strong Bearish"
    ELSE IF price_change < -2 * Scale THEN "Bearish"
    ELSE "Neutral"

\* Lines 393-452, the body of the /api/predict handler once safe_get has
\* returned a 200 response carrying the series p and v: the "Insufficient
\* data" response below 30 points; else the forecasts, the sentiment and the
\* support and resistance levels. Line 449 divides by resistance - support,
\* which raises ZeroDivisionError when they are equal.
predict_price_route(p, v) ==
    IF Len(p) < MinHistory THEN [kind |-> "insufficient"]
    ELSE LET n == Len(p)
             current == p[n]
             pred_1d == predict_price(p, v, 1)
             pred_7d == predict_price(p, v, 7)
             pred_30d == predict_price(p, v, 30)
             price_change == ((pred_7d.price - current * Scale) * 100) \div current
             support == MinRange(p, n - 29, n)
             resistance == MaxRange(p, n - 29, n)
         IN  IF resistance = support THEN [kind |-> "ZeroDivisionError"]
             ELSE [kind |-> "ok",
                   current_price |-> current * Scale,
                   pred_1d |-> pred_1d.price,
                   pred_7d |-> pred_7d.price,
                   pred_30d |-> pred_30d.price,
                   confidence |-> (pred_1d.confidence + pred_7d.confidence
                                     + pred_30d.confidence) \div 3,
                   sentiment |-> Sentiment(price_change),
                   support |-> support,
                   resistance |-> resistance,
                   current_position |->
                       ((current - support) * 100 * Scale)
                          \div (resistance - support)]

\* The series the upstream may send: a pattern of up to MaxPattern prices,
\* repeated up to a length around the thresholds of the code.
PriceValues == {90, 100, 110}
SeriesLengths == {0, 1, MinHistory - 1, MinHistory, MinHistory + 1, LongHistory}
Patterns == UNION {[1..k -> PriceValues] : k \in 1..MaxPattern}
VolumePatterns == {<<1>>, <<1, 3>>, <<3, 1, 1>>}

Cycle(pattern, n) == [i \in 1..n |-> pattern[((i - 1) % Len(pattern)) + 1]]

\* The horizons the handler asks for (lines 404-406).
Horizons == {1, 7, 30}

\* A 200 response carrying some price and volume series has arrived.
ForecastInit ==
    /\ InitBuckets
    /\ InitFull
    /\ InitThreads
    /\ InitFetch
    /\ InitCache
    /\ bucketOf = [t \in Threads |-> "chart"]
    /\ forecast = NoForecast
    /\ response = NoResponse
    /\ days = NoDays
    /\ forwarded = NoDays
    /\ \E pat \in Patterns : \E vp \in VolumePatterns : \E n \in SeriesLengths :
        /\ prices = Cycle(pat, n)
        /\ volumes = Cycle(vp, n)

\* AdvancedPredictor.predict_price(prices, volumes, d) is called.
CallPredictor(d) ==
    /\ forecast = NoForecast
    /\ forecast' = predict_price(prices, volumes, d)
    /\ UNCHANGED <<now, bucketVars, threadVars, atNow, allowance, fetchVars,
                   cacheVars, granted, prices, volumes, response, days, forwarded>>

\* The handler's body runs from line 393.
PredictBody ==
    /\ response = NoResponse
    /\ response' = predict_price_route(prices, volumes)
    /\ UNCHANGED <<now, bucketVars, threadVars, atNow, allowance, fetchVars,
                   cacheVars, granted, prices, volumes, forecast, days, forwarded>>

ForecastNext ==
    \/ \E d \in Horizons : CallPredictor(d)
    \/ PredictBody

ForecastSpec == ForecastInit /\ [][ForecastNext]_vars

\* ------------------------------------------------------------------ chart

\* Line 458: request.args.get("days", 30, type=int).
DefaultDays == 30
\* Line 462: min(days, 365).
MaxDays == 365

\* The `days` query values a caller may send: absent, not an integer, or an
\* integer.
DaysQueries ==
    {[kind |-> "absent"], [kind |-> "junk"]}
      \cup {[kind |-> "int", value |-> d] : d \in (-MaxDaysAsked)..MaxDaysAsked}

\* Line 458: the integer the handler reads: the default when the value is
\* absent or does not convert.
ParseDays(q) == IF q.kind = "int" THEN q.value ELSE DefaultDays

\* Line 462 without its min().
NoClamp(d) == d

\* Line 462: "days": min(days, 365).
ClampDays(d) == Min(d, MaxDays)

ChartInit ==
    /\ InitBuckets
    /\ InitFull
    /\ InitThreads
    /\ InitFetch
    /\ InitCache
    /\ InitHandlers
    /\ bucketOf = [t \in Threads |-> "chart"]

\* Lines 458-463: /api/chart is asked with query value q and builds the
\* parameters of its upstream request.
ChartRequest(q) ==
    /\ days' = q
    /\ forwarded' = [kind |-> "int", value |-> ClampDays(ParseDays(q))]
    /\ UNCHANGED <<now, bucketVars, threadVars, atNow, allowance, fetchVars,
                   cacheVars, granted, prices, volumes, forecast, response>>

ChartNext == \E q \in DaysQueries : ChartRequest(q)

ChartSpec == ChartInit /\ [][ChartNext]_vars

\* ------------------------------------------------------------- claims

\* C1: for every bucket, in every reachable state under any interleaving of
\* concurrent consume() calls with non-decreasing clock readings,
\* 0 <= tokens <= capacity.
C1_TokensInRange ==
    \A b \in Buckets : 0 <= tokens[b] /\ tokens[b] <= capacity[b]

\* A drained bucket, after time has passed, with one caller being rejected
\* inside the critical section while another waits for the lock.
C1_Witness ==
    \E t, u \in Threads :
        /\ t # u
        /\ pc[t] = "l55"
        /\ pc[u] = "l46"
        /\ now > 0
        /\ tokens[bucketOf[t]] < UnitsPerToken
        /\ pre[t].tokens < tokens[bucketOf[t]]

\* The grants of every interval that starts between two critical sections
\* stay within the tokens present at its start plus elapsed * refill_rate.
IntervalBound == \A b \in Buckets : allowance[b] >= 0

\* Two calls of cost 1 that read the same clock value, the first of them
\* finding at least 1 and fewer than 2 tokens after its refill.
SameInstantPair(t, u) ==
    /\ t # u
    /\ atNow[t].done /\ atNow[u].done
    /\ atNow[t].cost = 1 /\ atNow[u].cost = 1
    /\ Max(atNow[t].seen, atNow[u].seen) >= UnitsPerToken
    /\ Max(atNow[t].seen, atNow[u].seen) < 2 * UnitsPerToken

ExactlyOneGranted ==
    \A t, u \in Threads : SameInstantPair(t, u) => (atNow[t].ret # atNow[u].ret)

\* C2: refill-decide-deduct is atomic per bucket: of two concurrent
\* consume(1) calls on a bucket holding at least 1 and fewer than 2 tokens
\* exactly one returns True, and the grants of an interval never exceed the
\* tokens present at its start plus elapsed_seconds * refill_rate.
C2_AtomicConsume == ExactlyOneGranted /\ IntervalBound

\* Two overlapping calls (the second began while the first held the lock),
\* 1 <= tokens < 2 after the refill: the first was granted, the second not.
C2_Witness ==
    \E t, u \in Threads :
        /\ SameInstantPair(t, u)
        /\ atNow[u].raced
        /\ atNow[t].ret /\ ~atNow[u].ret
        /\ allowance[bucketOf[t]] < UnitsPerToken

\* The step in which consume() returns: the thread leaves line 53 (True) or
\* line 55 (False).
Returns(t) == pc[t] \in {"l53", "l55"} /\ pc'[t] \notin {"l53", "l55"}
ReturnsTrue(t) == pc[t] = "l53"

\* min(capacity, tokens + elapsed * refill_rate) over the fields the call
\* found and the clock value it read.
RefilledValue(t) ==
    LET b == bucketOf[t]
        v == pre[t].tokens + (tnow[t] - pre[t].last_refill) * refill_rate[b]
    IN  IF v < capacity[b] THEN v ELSE capacity[b]

\* C3: consume(cost) returns True and subtracts cost iff the refilled value
\* is >= cost; when it returns False, tokens is exactly the refilled value;
\* either way last_refill is the clock value the call read and capacity and
\* refill_rate are unchanged.
C3_ConsumeEffect ==
    [][\A t \in Threads :
         Returns(t) =>
            LET b == bucketOf[t] IN
            /\ ReturnsTrue(t) <=> (RefilledValue(t) >= cost[t] * UnitsPerToken)
            /\ ReturnsTrue(t) =>
                  tokens'[b] = RefilledValue(t) - cost[t] * UnitsPerToken
            /\ ~ReturnsTrue(t) => tokens'[b] = RefilledValue(t)
            /\ last_refill'[b] = tnow[t]
            /\ capacity' = capacity
            /\ refill_rate' = refill_rate]_vars

\* A call about to return False after a refill that added tokens, though
\* not enough for its cost.
C3_Witness ==
    \E t \in Threads :
        /\ pc[t] = "l55"
        /\ pre[t].tokens < tokens[bucketOf[t]]
        /\ tokens[bucketOf[t]] < capacity[bucketOf[t]]
        /\ tokens[bucketOf[t]] >= UnitsPerToken
        /\ cost[t] > 1

\* The call found the bucket idle for at least capacity / refill_rate.
IdleLongEnough(t) ==
    (tnow[t] - pre[t].last_refill) * refill_rate[bucketOf[t]] >= capacity[bucketOf[t]]

\* C4: after an idle period of at least capacity / refill_rate seconds the
\* next consume() decides on tokens == capacity, never more, so consume(1)
\* is granted and leaves capacity - 1.
C4_IdleBucketIsFull ==
    [][\A t \in Threads :
         /\ (pc[t] = "l52" /\ IdleLongEnough(t)) =>
                tokens[bucketOf[t]] = capacity[bucketOf[t]]
         /\ (Returns(t) /\ IdleLongEnough(t) /\ cost[t] = 1) =>
                /\ ReturnsTrue(t)
                /\ tokens'[bucketOf[t]] = capacity[bucketOf[t]] - UnitsPerToken]_vars

\* A bucket drained below one token, left idle for longer than
\* capacity / refill_rate, and then asked for one token.
C4_Witness ==
    \E t \in Threads :
        /\ pc[t] = "l53"
        /\ cost[t] = 1
        /\ pre[t].tokens < UnitsPerToken
        /\ (tnow[t] - pre[t].last_refill) * refill_rate[bucketOf[t]]
              > capacity[bucketOf[t]]

RECURSIVE NonDecreasing(_)
NonDecreasing(q) ==
    IF Len(q) < 2 THEN TRUE ELSE q[1] <= q[2] /\ NonDecreasing(Tail(q))

Returned(t) == result[t] # "pending"

\* C5: against an upstream that answers 429 exactly N times and then 200,
\* N below the retry budget, safe_get returns the 200 response after exactly
\* N + 1 requests, and its backoff sleeps are non-decreasing.
C5_RetryAfter429 ==
    \A t \in Threads :
        /\ (nfail[t] = 0 /\ last[t] # "200") => requests[t] = n429[t]
        /\ (nfail[t] = 0 /\ n429[t] < retries[t] /\ Returned(t)) =>
              /\ last[t] = "200"
              /\ result[t] = "r200"
              /\ requests[t] = n429[t] + 1
        /\ nfail[t] = 0 => (Len(sleeps[t]) = n429[t] /\ NonDecreasing(sleeps[t]))

\* Four 429 answers, then 200, within the default budget of 5.
C5_Witness ==
    \E t \in Threads :
        /\ retries[t] = DefaultRetries
        /\ result[t] = "r200"
        /\ n429[t] = 4
        /\ requests[t] = 5
        /\ sleeps[t] = <<5, 10, 20, 40>>

\* The thread is inside safe_get's retry loop: about to send a request, or
\* in one of its backoff sleeps.
InRetryLoop(t) == pc[t] \in {"l82", "z89", "z98", "z103", "z106"}

\* C6: an admitted safe_get call terminates (no thread stays in the retry
\* loop for ever), sends at most `retries` requests whatever the upstream
\* answers, and returns None when no attempt produced a 200.
C6_BoundedRetries ==
    /\ [](\A t \in Threads :
            /\ requests[t] <= retries[t]
            /\ (Returned(t) /\ last[t] # "200") => result[t] = "None"
            /\ (Returned(t) /\ last[t] = "200") => result[t] = "r200"
            /\ Returned(t) => ~InRetryLoop(t))
    /\ \A t \in Threads : []<>(~InRetryLoop(t))

\* The default budget used up by a mix of 429, 5xx and transport failures.
C6_Witness ==
    \E t \in Threads :
        /\ result[t] = "None"
        /\ retries[t] = DefaultRetries
        /\ requests[t] = DefaultRetries
        /\ n429[t] = 2
        /\ last[t] = "timeout"

\* C7: after an answer with a status that is not 200, not 429 and not >= 500
\* safe_get sends no further request (the loop has no iteration left for it),
\* and what it returns is not the None of an exhausted budget.
C7_NoRetryOnClientError ==
    \A t \in Threads :
        last[t] = "other" =>
            /\ pc[t] = "l82" => ~InRange(attempt[t], retries[t])
            /\ Returned(t) => result[t] \notin {"None", "r200"}

\* C8: every 429 sleep is min(5 * 2^attempt, 60), at most 60 s, and every
\* 5xx / timeout / transport-error sleep stays below the 429 ceiling, for
\* every attempt index and every `retries`.
C8_BackoffCeilings ==
    \A t \in Threads :
        /\ pc[t] = "z89" =>
              /\ sleeps[t][Len(sleeps[t])] =
                    Min(Backoff429Base * Pow2(attempt[t]), Backoff429Cap)
              /\ sleeps[t][Len(sleeps[t])] <= Backoff429Cap
        /\ pc[t] \in {"z98", "z103", "z106"} =>
              sleeps[t][Len(sleeps[t])] < Backoff429Cap

C10_OnlySuccessStored ==
    \A q \in Queries : store[q] # NoEntry => store[q].value = "ok"

\* C11: a forecast from fewer than 30 price points is an explicit
\* insufficient-history error, from AdvancedPredictor.predict_price as from
\* the /api/predict handler: never a predicted price or a confidence.
C11_ShortSeriesIsAnError ==
    Len(prices) < MinHistory =>
        /\ forecast.kind \in {"none", "insufficient"}
        /\ response.kind \in {"none", "insufficient"}

\* C12: for a series of at least 30 points the handler answers with
\* support = min and resistance = max of the trailing 30 prices and a
\* current_position, which is 50 when resistance = support.
C12_SupportResistance ==
    (Len(prices) >= MinHistory /\ response # NoResponse) =>
        /\ response.kind = "ok"
        /\ response.support = MinRange(prices, Len(prices) - 29, Len(prices))
        /\ response.resistance = MaxRange(prices, Len(prices) - 29, Len(prices))
        /\ response.support = response.resistance =>
              response.current_position = 50 * Scale

\* 30 equal prices with a constant volume series.
FlatSeries ==
    /\ Len(prices) = MinHistory
    /\ \A i \in 1..Len(prices) : prices[i] = prices[1]
    /\ \A i \in 1..Len(volumes) : volumes[i] = volumes[1]

\* C13: for 30 equal prices and a constant volume series the predicted
\* price is the current price at every horizon and the sentiment is
\* "Neutral".
C13_FlatSeriesStays ==
    FlatSeries =>
        /\ forecast.kind = "value" => forecast.price = prices[1] * Scale
        /\ response # NoResponse =>
              /\ response.kind = "ok"
              /\ response.sentiment = "Neutral"
              /\ response.pred_1d = prices[1] * Scale
              /\ response.pred_7d = prices[1] * Scale
              /\ response.pred_30d = prices[1] * Scale

\* C14: whatever integer `days` a caller sends to /api/chart, the `days`
\* forwarded upstream is at most 365, and is the caller's value whenever
\* that is at most 365.
C14_DaysClamped ==
    forwarded.kind = "int" =>
        /\ forwarded.value <= MaxDays
        /\ (days.kind = "int" /\ days.value <= MaxDays) =>
              forwarded.value = days.value

\* A caller asked for more than 365 days and 365 were forwarded.
C14_Witness ==
    /\ days.kind = "int"
    /\ days.value > MaxDays
    /\ forwarded.kind = "int"
    /\ forwarded.value = MaxDays

\* The positions of rate_limit_wait()'s loop body and of the sleeps.
Waiting == Asleep \cup {"l74", "l76"}

\* The step is one of thread t.
StepOf(t) == pc'[t] # pc[t]

\* A step of a thread leaves every bucket but its own as it was, and the
\* passing of time changes no bucket.
OtherBucketsUntouched ==
    /\ \A t \in Threads :
          StepOf(t) =>
              \A b \in Buckets \ {bucketOf[t]} :
                  /\ tokens'[b] = tokens[b]
                  /\ last_refill'[b] = last_refill[b]
                  /\ lock'[b] = lock[b]
    /\ (\A t \in Threads : ~StepOf(t)) => UNCHANGED <<tokens, last_refill, lock>>

\* A lock is held only by a thread inside consume() on that very bucket; a
\* thread that waits or sleeps holds none.
LocksHeldInsideConsume ==
    /\ \A b \in Buckets :
          lock[b] # NoThread =>
              bucketOf[lock[b]] = b /\ pc[lock[b]] \in InsideLock
    /\ \A t \in Threads : pc[t] \in Waiting => \A b \in Buckets : lock[b] # t

\* A caller whose bucket no other thread is inside of can take its every
\* step through consume(), whatever the threads on other buckets do.
CanCompleteConsume ==
    \A t \in Threads :
        /\ (/\ pc[t] = "l46"
            /\ \A u \in Threads \ {t} :
                  bucketOf[u] = bucketOf[t] => pc[u] \notin InsideLock)
              => ENABLED Acquire(t)
        /\ pc[t] \in InsideLock
              => ENABLED (Refill(t) \/ Check(t) \/ Deduct(t) \/ Reject(t))

\* C15: buckets are independent: a step on one bucket changes no other
\* bucket's tokens, last_refill or lock; a thread waiting in rate_limit_wait
\* or sleeping in a backoff holds no lock; so a caller of one bucket can
\* always complete consume() while others wait on another bucket.
C15_BucketsIndependent ==
    /\ [](LocksHeldInsideConsume /\ CanCompleteConsume)
    /\ [][OtherBucketsUntouched]_vars

\* Thread 1 is granted a token of its bucket while thread 2 sleeps in
\* rate_limit_wait on another, empty bucket.
C15_Witness ==
    /\ bucketOf[1] # bucketOf[2]
    /\ pc[1] = "l53"
    /\ pc[2] = "z76"
    /\ tokens[bucketOf[2]] < UnitsPerToken

\* C16: wait_time() changes no field of the bucket; it returns 0 exactly
\* when the stored tokens are at least 1, and otherwise the time in which
\* (1 - tokens) is refilled; a consume(1) that long after the call finds at
\* least one token if nobody else has touched the bucket.
C16_WaitTime ==
    [][\A t \in Threads :
          (pc[t] = "l74" /\ pc'[t] = "l76") =>
              LET b == bucketOf[t] IN
              /\ UNCHANGED bucketVars
              /\ wait'[t] = 0 <=> tokens[b] >= UnitsPerToken
              /\ wait'[t] > 0 =>
                    /\ wait'[t] * refill_rate[b] >= UnitsPerToken - tokens[b]
                    /\ (wait'[t] - 1) * refill_rate[b] < UnitsPerToken - tokens[b]
              /\ Refilled(capacity[b], tokens[b],
                          (now + wait'[t]) - last_refill[b], refill_rate[b])
                    >= UnitsPerToken]_vars

\* Both answers were given: one rejected caller was told to wait, slept and
\* was granted a token; the other, rejected before that, is then told 0,
\* because the first one's consume() refilled the bucket.
C16_Witness ==
    \E t, u \in Threads :
        /\ bucketOf[t] = bucketOf[u]
        /\ pc[t] = "l76"
        /\ wait[t] = 0
        /\ wait[u] > 0
        /\ granted[u] = 1

\* The token of a safe_get() call is taken once, before its first request:
\* as soon as a request has been sent, and when the call has returned, the
\* call has been granted one token, and never more; it sends at most
\* `retries` requests.
OneTokenPerCall ==
    \A t \in Threads :
        /\ granted[t] <= 1
        /\ (requests[t] >= 1 \/ InRetryLoop(t) \/ Returned(t)) => granted[t] = 1
        /\ requests[t] <= retries[t]

\* Sending a request, first or retried, takes no token and touches no
\* bucket.
RequestsTakeNoToken ==
    \A t \in Threads :
        requests'[t] > requests[t] =>
            /\ UNCHANGED bucketVars
            /\ granted' = granted

\* C18: every safe_get() call takes exactly one token, before its first
\* request; the retries send further requests without taking any, so a call
\* sends up to `retries` requests on its one token.
C18_OneTokenManyRequests == []OneTokenPerCall /\ [][RequestsTakeNoToken]_vars

\* A call with the default budget has returned after 5 requests, on the one
\* token it was granted.
C18_Witness ==
    \E t \in Threads :
        /\ Returned(t)
        /\ retries[t] = DefaultRetries
        /\ requests[t] = DefaultRetries
        /\ granted[t] = 1
        /\ tokens[bucketOf[t]] = BucketCapacity(bucketOf[t]) - UnitsPerToken

\* The answers after which safe_get() sleeps.
Failures == {"429", "5xx", "timeout", "error"}

\* The positions of safe_get()'s backoff sleeps.
BackoffSleeps == {"z89", "z98", "z103", "z106"}

\* A request answered by a failure is followed by a backoff sleep, whichever
\* attempt of the budget it was; and requests are sent within the budget
\* only.
SleepsAfterEveryFailure ==
    \A t \in Threads :
        requests'[t] > requests[t] =>
            /\ attempt[t] < retries[t]
            /\ last'[t] \in Failures =>
                  /\ pc'[t] \in BackoffSleeps
                  /\ Len(sleeps'[t]) = Len(sleeps[t]) + 1
                  /\ wake'[t] = now + sleeps'[t][Len(sleeps'[t])] * TicksPerSec
                  /\ sleeps'[t][Len(sleeps'[t])] >= 1

\* A call with retries=5 answered 429 five times.
All429(t) == retries[t] = DefaultRetries /\ n429[t] = DefaultRetries

\* Such a call ends by returning None, after 5 requests and sleeps of 5, 10,
\* 20, 40 and 60 s, 135 s at least after it began; and when its last sleep
\* is over nothing is left to it but to return.
All429Sleeps ==
    \A t \in Threads :
        All429(t) =>
            /\ requests[t] = DefaultRetries
            /\ pc[t] \notin BackoffSleeps =>
                  /\ sleeps[t] = <<5, 10, 20, 40, 60>>
                  /\ now >= 135 * TicksPerSec
                  /\ ~ENABLED (\E a \in Failures \cup {"200", "other"} :
                                  Request(t, a))
            /\ Returned(t) => result[t] = "None"

\* C19: safe_get() sleeps after every failed attempt, the last of the budget
\* included: with retries=5 and 429 on every attempt it sleeps 5, 10, 20, 40
\* and 60 s, then returns None without another request.
C19_SleepsAfterLastAttempt ==
    []All429Sleeps /\ [][SleepsAfterEveryFailure]_vars

\* The call has returned None after its fifth 429 and its fifth sleep.
C19_Witness ==
    \E t \in Threads :
        /\ All429(t)
        /\ Returned(t)
        /\ result[t] = "None"
        /\ sleeps[t] = <<5, 10, 20, 40, 60>>
        /\ requests[t] = DefaultRetries

\* C17: with fair scheduling and an advancing clock, a caller whom
\* consume() has rejected in rate_limit_wait is eventually granted its
\* token, also while another thread keeps calling on the same bucket.
C17_EventuallyAdmitted ==
    \A t \in Threads : (pc[t] = "l74") ~> (granted[t] = 1)

====
